---- MODULE Spec2Model ----
(***************************************************************************)
(* Model of the Agenda API (src/app/main.py): an in-memory contact list    *)
(* behind seven HTTP routes, wrapped by the log_requests middleware.       *)
(*                                                                         *)
(* A request goes through three steps, as under the ASGI event loop:       *)
(*   Start     log_requests up to `await call_next(request)` (l. 58-68),   *)
(*   a handler the route's function, run without suspension: none of the   *)
(*             route functions contains an await (l. 97-244),              *)
(*   Complete  log_requests after call_next returns (l. 70-79).            *)
(* Several requests may be between Start and Complete at the same time.    *)
(* Requests are numbered in their order of arrival. The route and the      *)
(* input of a request are chosen in the step that runs its handler: the    *)
(* middleware only copies method and URL into its records, and the elapsed *)
(* time it measures (l. 59, 70) reaches the log only.                      *)
(***************************************************************************)
EXTENDS Naturals, Sequences, FiniteSets, TLC

\* Bounds of the model.
MaxReq == 3       \* requests received in one run
NumUuids == 2     \* distinct values uuid.uuid4() can draw

Rids == 1..MaxReq
Uuids == 1..NumUuids

\* JSON values of a request body field (JObj: an object or an array), and
\* Python's None.
Absent == [t |-> "absent", v |-> ""]
JNull == [t |-> "null", v |-> ""]
JObj == [t |-> "object", v |-> ""]
JStr(s) == [t |-> "string", v |-> s]
None == JNull

\* Faulty variant: a required field must also be non-empty.
ValidRequiredMinLen1(x) == x.t = "string" /\ x.v # ""
\* nome: str / telefone: str (l. 82-83): present and a string; no length rule.
ValidRequired(x) == x.t = "string"

\* email / endereco: Optional[str] = None (l. 84-85).
ValidOptional(x) == x.t \in {"absent", "null", "string"}

\* The value an Optional[str] field takes after validation.
OptionalValue(x) == IF x.t = "string" THEN x ELSE None

\* Schema validation of the POST /contatos body by ContactCreate (l. 81-85, 167).
ContactCreateValid(p) ==
    /\ ValidRequired(p.nome)
    /\ ValidRequired(p.telefone)
    /\ ValidOptional(p.email)
    /\ ValidOptional(p.endereco)

\* The validated ContactCreate object.
ContactCreate(p) ==
    [nome |-> p.nome.v, telefone |-> p.telefone.v,
     email |-> OptionalValue(p.email), endereco |-> OptionalValue(p.endereco)]

\* The request bodies tried: the example payload, every payload that differs
\* from it in one field by a missing, null or non-string value, and a payload
\* with empty name and phone and both optional fields given.
NomeVals == {Absent, JNull, JObj, JStr("Ana")}
TelefoneVals == {Absent, JNull, JObj, JStr("123")}
EmailVals == {Absent, JNull, JObj}
EnderecoVals == {Absent, JNull, JObj}
ExamplePayload ==
    [nome |-> JStr("Ana"), telefone |-> JStr("123"), email |-> Absent, endereco |-> Absent]
EmptyPayload ==
    [nome |-> JStr(""), telefone |-> JStr(""), email |-> JStr("ana@x"), endereco |-> JStr("Rua 1")]
Deviations(p) ==
    Cardinality({f \in {"nome", "telefone", "email", "endereco"} : p[f] # ExamplePayload[f]})
Payloads ==
    {p \in [nome : NomeVals, telefone : TelefoneVals, email : EmailVals, endereco : EnderecoVals] :
        Deviations(p) <= 1} \cup {EmptyPayload}
NoPayload == [nome |-> Absent, telefone |-> Absent, email |-> Absent, endereco |-> Absent]

\* Faulty variant: the same id whatever was drawn.
ConstantId(u) == "uuid-0"
\* str(uuid.uuid4()) (l. 182): the textual form of the drawn value.
StrUuid(u) == "uuid-" \o ToString(u)

\* Path parameters tried by GET /contatos/{contact_id}.
PathIds == {StrUuid(u) : u \in Uuids} \cup {"does-not-exist"}

Routes == {"root", "health_check", "system_metrics", "system_metrics_prometheus",
           "adicionar_contato", "visualizar_contatos", "buscar_contato"}

VARIABLES
    contacts_db,   \* the module-level list (l. 95)
    log,           \* per request: the records logged on its behalf, oldest first
    req,           \* per request: position in log_requests, response status
    resp,          \* the response the step just taken produced (NoResp if none)
    returned,      \* the contacts returned by POST /contatos, oldest first
    drawn,         \* the values uuid.uuid4() returned, oldest first
    clock          \* the last instant read by datetime.now()

vars == <<contacts_db, log, req, resp, returned, drawn, clock>>

NoResp == [rid |-> 0, route |-> "none", status |-> 0, body |-> <<>>,
           payload |-> NoPayload, path_id |-> ""]

Init ==
    /\ contacts_db = <<>>
    /\ log = [r \in Rids |-> <<>>]
    /\ req = [r \in Rids |-> [pc |-> "new", status |-> 0]]
    /\ resp = NoResp
    /\ returned = <<>>
    /\ drawn = <<>>
    /\ clock = 0

\* logger.info / logger.warning(json.dumps({"event": ...})) while request r is
\* served. A record keeps its level and event, and the fields the properties
\* below read (status_code, total_contacts).
LogRecord(level, event) == [level |-> level, event |-> event]
Logged(r, records) == [log EXCEPT ![r] = @ \o records]

\* log_requests before dispatch (l. 58-68): request_started, then call_next.
\* MaxReq requests arrive in a run.
Start(r) ==
    /\ req[r].pc = "new"
    /\ \A q \in Rids : q < r => req[q].pc # "new"
    /\ req' = [req EXCEPT ![r].pc = "started"]
    /\ log' = Logged(r, <<LogRecord("INFO", "request_started")>>)
    /\ resp' = NoResp
    /\ UNCHANGED <<contacts_db, returned, drawn, clock>>

\* Faulty variant: request_completed always reports 200.
CompleteAs200(r) ==
    /\ req[r].pc = "handled"
    /\ req' = [req EXCEPT ![r].pc = "done"]
    /\ log' = Logged(r, <<[level |-> "INFO", event |-> "request_completed",
                            status_code |-> 200]>>)
    /\ resp' = NoResp
    /\ UNCHANGED <<contacts_db, returned, drawn, clock>>
\* log_requests after call_next (l. 70-79): request_completed with the status
\* code of the response; the response leaves the server.
Complete(r) ==
    /\ req[r].pc = "handled"
    /\ req' = [req EXCEPT ![r].pc = "done"]
    /\ log' = Logged(r, <<[level |-> "INFO", event |-> "request_completed",
                            status_code |-> req[r].status]>>)
    /\ resp' = NoResp
    /\ UNCHANGED <<contacts_db, returned, drawn, clock>>

Dispatched(r) == req[r].pc = "started"

Respond(r, route, status, body, payload, path_id) ==
    /\ req' = [req EXCEPT ![r].pc = "handled", ![r].status = status]
    /\ resp' = [rid |-> r, route |-> route, status |-> status, body |-> body,
                payload |-> payload, path_id |-> path_id]

\* GET / (l. 97-110)
root(r) ==
    /\ Dispatched(r)
    /\ Respond(r, "root", 200, <<"Bem-vindo", "active">>, NoPayload, "")
    /\ UNCHANGED <<contacts_db, log, returned, drawn, clock>>

\* GET /health (l. 112-114)
health_check(r) ==
    /\ Dispatched(r)
    /\ Respond(r, "health_check", 200, <<"healthy", "agenda-api", Len(contacts_db)>>, NoPayload, "")
    /\ UNCHANGED <<contacts_db, log, returned, drawn, clock>>

\* datetime.now() (l. 123, 191): the instant read, later than every one read before.
Now == clock + 1

\* psutil readings (l. 118-120, 146-148) are live host values; only the number
\* of contacts in the answer depends on the program's state.
\* GET /system-metrics (l. 116-141)
system_metrics(r) ==
    /\ Dispatched(r)
    /\ clock' = Now
    /\ Respond(r, "system_metrics", 200, <<"timestamp", Now, "contacts_count", Len(contacts_db)>>,
               NoPayload, "")
    /\ UNCHANGED <<contacts_db, log, returned, drawn>>

\* GET /system-metrics-prometheus (l. 143-164)
system_metrics_prometheus(r) ==
    /\ Dispatched(r)
    /\ Respond(r, "system_metrics_prometheus", 200, <<"agenda_contacts_total", Len(contacts_db)>>, NoPayload, "")
    /\ UNCHANGED <<contacts_db, log, returned, drawn, clock>>

\* uuid.uuid4() (l. 182): a value drawn before, or a new one; nothing compares
\* the draw with the ids already stored. The program never looks inside a
\* value, so new values are numbered in the order they appear.
Draws == {u \in Uuids : u <= Cardinality({drawn[i] : i \in 1..Len(drawn)}) + 1}

\* Faulty variant: name and phone exchanged.
NewContactSwapped(contact_id, contato, now) ==
    [id |-> contact_id, nome |-> contato.telefone, telefone |-> contato.nome,
     email |-> contato.email, endereco |-> contato.endereco, created_at |-> now]
\* Contact(id=..., nome=..., ..., created_at=...) (l. 185-192)
NewContact(contact_id, contato, now) ==
    [id |-> contact_id, nome |-> contato.nome, telefone |-> contato.telefone,
     email |-> contato.email, endereco |-> contato.endereco, created_at |-> now]

\* Faulty variants: insert at the front, append twice, overwrite the last one.
SaveFirst(db, c) == <<c>> \o db
SaveTwice(db, c) == db \o <<c, c>>
SaveOverLast(db, c) == IF db = <<>> THEN <<c>> ELSE [db EXCEPT ![Len(db)] = c]
\* contacts_db.append(new_contact) (l. 195)
SaveContact(db, c) == Append(db, c)

\* POST /contatos (l. 166-205). A body that fails ContactCreate never reaches
\* the function: FastAPI answers 422.
adicionar_contato(r) ==
    /\ Dispatched(r)
    /\ \E p \in Payloads :
         IF ~ContactCreateValid(p)
         THEN /\ Respond(r, "adicionar_contato", 422, <<"validation error">>, p, "")
              /\ UNCHANGED <<contacts_db, log, returned, drawn, clock>>
         ELSE \E u \in Draws :
                LET new_contact == NewContact(StrUuid(u), ContactCreate(p), Now) IN
                /\ clock' = Now
                /\ contacts_db' = SaveContact(contacts_db, new_contact)
                /\ log' = Logged(r, <<LogRecord("INFO", "creating_contact"),
                                       [level |-> "INFO", event |-> "contact_created",
                                        total_contacts |-> Len(contacts_db')]>>)
                /\ returned' = Append(returned, new_contact)
                /\ drawn' = Append(drawn, u)
                /\ Respond(r, "adicionar_contato", 200, new_contact, p, "")

\* Faulty variant: the list is reversed in place before it is returned.
visualizar_contatos_newest_first(r) ==
    LET newest_first == [i \in 1..Len(contacts_db) |-> contacts_db[Len(contacts_db) + 1 - i]] IN
    /\ Dispatched(r)
    /\ log' = Logged(r, <<LogRecord("INFO", "listing_contacts")>>)
    /\ contacts_db' = newest_first
    /\ Respond(r, "visualizar_contatos", 200, newest_first, NoPayload, "")
    /\ UNCHANGED <<returned, drawn, clock>>
\* GET /contatos (l. 207-213)
visualizar_contatos(r) ==
    /\ Dispatched(r)
    /\ log' = Logged(r, <<LogRecord("INFO", "listing_contacts")>>)
    /\ Respond(r, "visualizar_contatos", 200, contacts_db, NoPayload, "")
    /\ UNCHANGED <<contacts_db, returned, drawn, clock>>

\* for contact in contacts_db: if contact.id == contact_id: return contact
\* (l. 227-237): the position of the first match from position i on, 0 if none.
RECURSIVE ScanFrom(_, _, _)
ScanFrom(db, contact_id, i) ==
    IF i > Len(db) THEN 0
    ELSE IF db[i].id = contact_id THEN i
    ELSE ScanFrom(db, contact_id, i + 1)
\* Faulty variants: the last match; the first contact whatever its id.
FindLast(db, contact_id) ==
    LET hits == {i \in 1..Len(db) : db[i].id = contact_id} IN
    IF hits = {} THEN 0 ELSE CHOOSE i \in hits : \A j \in hits : j <= i
FindAny(db, contact_id) == IF db = <<>> THEN 0 ELSE 1
\* The scan starts at the first contact.
FindContact(db, contact_id) == ScanFrom(db, contact_id, 1)

\* HTTPException(status_code=404, detail="Contato não encontrado") (l. 244)
NotFoundDetail == "Contato não encontrado"

\* GET /contatos/{contact_id} (l. 215-244)
buscar_contato(r) ==
    /\ Dispatched(r)
    /\ \E contact_id \in PathIds :
         LET i == FindContact(contacts_db, contact_id) IN
         IF i > 0
         THEN /\ log' = Logged(r, <<LogRecord("INFO", "searching_contact"),
                                     LogRecord("INFO", "contact_found")>>)
              /\ Respond(r, "buscar_contato", 200, contacts_db[i], NoPayload, contact_id)
         ELSE /\ log' = Logged(r, <<LogRecord("INFO", "searching_contact"),
                                     LogRecord("WARNING", "contact_not_found")>>)
              /\ Respond(r, "buscar_contato", 404, <<NotFoundDetail>>, NoPayload, contact_id)
    /\ UNCHANGED <<contacts_db, returned, drawn, clock>>

Next ==
    \E r \in Rids :
        \/ Start(r)
        \/ root(r)
        \/ health_check(r)
        \/ system_metrics(r)
        \/ system_metrics_prometheus(r)
        \/ adicionar_contato(r)
        \/ visualizar_contatos(r)
        \/ buscar_contato(r)
        \/ Complete(r)

Spec == Init /\ [][Next]_vars

(***************************************************************************)
(* Helpers of the properties.                                              *)
(***************************************************************************)
IsPrefix(a, b) == Len(a) <= Len(b) /\ \A i \in 1..Len(a) : a[i] = b[i]

Count(l, event) == Cardinality({i \in 1..Len(l) : l[i].event = event})

\* The requests whose POST /contatos was accepted.
Creators == {r \in Rids : Count(log[r], "contact_created") = 1}

\* The store length request r logged in its contact_created record.
StoredAt(r) ==
    LET k == CHOOSE k \in 1..Len(log[r]) : log[r][k].event = "contact_created" IN
    log[r][k].total_contacts

\* The positions of the returned contacts that carry the id.
Issued(contact_id) == {i \in 1..Len(returned) : returned[i].id = contact_id}

\* The step just taken ran the handler of the route.
Ran(route) == resp.route = route
RanNext(route) == resp'.route = route

\* A required field the schema refuses: missing, null, or not a string.
Refused(x) == x.t \in {"absent", "null", "object"}

ReadRoutes == Routes \ {"adicionar_contato"}

(***************************************************************************)
(* C1: GET /contatos answers 200 with exactly the contacts the successful  *)
(* POST /contatos calls returned so far, as many and in the same order,    *)
(* whatever other requests were served in between.                         *)
(***************************************************************************)
C1_ListIsCreationOrder ==
    Ran("visualizar_contatos") =>
        /\ resp.status = 200
        /\ Len(resp.body) = Cardinality(Creators)
        /\ resp.body = returned

C1_Witness ==
    /\ Ran("visualizar_contatos")
    /\ Len(resp.body) = 2
    /\ resp.body[1].nome # resp.body[2].nome

C4_UnknownIdNotFound ==
    [][RanNext("buscar_contato") /\ Issued(resp'.path_id) = {} =>
          /\ resp'.status = 404
          /\ resp'.body = <<NotFoundDetail>>
          /\ contacts_db' = contacts_db]_vars

C4_Witness ==
    /\ Ran("buscar_contato")
    /\ resp.status = 404
    /\ resp.path_id = StrUuid(2)
    /\ Len(contacts_db) = 1

C6_CreatedAsSubmitted ==
    [][RanNext("adicionar_contato") /\ resp'.status = 200 =>
          LET p == resp'.payload
              c == resp'.body IN
          /\ c.nome = p.nome.v
          /\ c.telefone = p.telefone.v
          /\ c.email = (IF p.email.t = "string" THEN p.email ELSE None)
          /\ c.endereco = (IF p.endereco.t = "string" THEN p.endereco ELSE None)
          /\ contacts_db' = Append(contacts_db, c)]_vars

C6_Witness ==
    /\ Ran("adicionar_contato")
    /\ resp.status = 200
    /\ resp.payload = ExamplePayload
    /\ Len(contacts_db) = 2
    /\ contacts_db[1].email = JStr("ana@x")
    /\ contacts_db[2].email = None

(***************************************************************************)
(* C7: every read route leaves the store as it was, GET / and GET /health  *)
(* (and the list and metrics routes) answer 200 whatever the store holds,  *)
(* and the store changes only in a step of an accepted POST /contatos.     *)
(***************************************************************************)
C7_ReadsLeaveStore ==
    [][/\ resp'.route \in ReadRoutes => contacts_db' = contacts_db
       /\ resp'.route \in ReadRoutes \ {"buscar_contato"} => resp'.status = 200
       /\ contacts_db' # contacts_db => RanNext("adicionar_contato") /\ resp'.status = 200]_vars

C7_Witness ==
    /\ Ran("health_check")
    /\ resp.status = 200
    /\ resp.body[3] = 2
    /\ Len(contacts_db) = 2

(***************************************************************************)
(* C8: the store is empty at startup and every step leaves the previous    *)
(* contents as a prefix of the new contents.                               *)
(***************************************************************************)
C8_AppendOnly ==
    /\ contacts_db = <<>>
    /\ [][IsPrefix(contacts_db, contacts_db')]_vars

C8_Witness ==
    /\ Len(contacts_db) = 3
    /\ \E r \in Rids : req[r].pc = "done"

(***************************************************************************)
(* C9: the records of a request hold request_started once, as the first    *)
(* record and from the moment the request enters the middleware, and       *)
(* request_completed once, as the last record, only after the handler has  *)
(* answered, with the status code of that answer, 404 and 422 included.    *)
(***************************************************************************)
C9_StartedThenCompleted ==
    \A r \in Rids :
        LET l == log[r] IN
        /\ Count(l, "request_started") = (IF req[r].pc = "new" THEN 0 ELSE 1)
        /\ Count(l, "request_completed") = (IF req[r].pc = "done" THEN 1 ELSE 0)
        /\ req[r].pc # "new" => l[1].event = "request_started"
        /\ req[r].pc = "done" =>
              /\ l[Len(l)].event = "request_completed"
              /\ l[Len(l)].status_code = req[r].status
              /\ req[r].status \in {200, 404, 422}
              /\ req[r].status = 404 <=> Count(l, "contact_not_found") = 1
              /\ Count(l, "contact_created") = 1 => req[r].status = 200

C9_Witness ==
    \E r, q \in Rids :
        /\ req[r].pc = "done" /\ req[r].status = 404
        /\ req[q].pc = "done" /\ req[q].status = 422
        /\ log[q] = <<LogRecord("INFO", "request_started"),
                      [level |-> "INFO", event |-> "request_completed", status_code |-> 422]>>

(***************************************************************************)
(* C10: however the accepted POST /contatos requests in flight interleave, *)
(* the store holds exactly one record per accepted request, each the       *)
(* complete record returned to its caller: none lost, doubled or           *)
(* overwritten.                                                            *)
(***************************************************************************)
C10_NoLostAppend ==
    /\ Len(contacts_db) = Cardinality(Creators)
    /\ Len(contacts_db) = Len(returned)
    /\ \A i \in 1..Len(returned) : contacts_db[i] = returned[i]
    /\ \A r \in Creators : StoredAt(r) \in 1..Len(contacts_db)
    /\ \A r, q \in Creators : r # q => StoredAt(r) # StoredAt(q)
    /\ Ran("adicionar_contato") /\ resp.status = 200 =>
          resp.rid \in Creators /\ contacts_db[StoredAt(resp.rid)] = resp.body

\* Request 2 arrived while request 1 was in flight and stored its contact first.
C10_Witness ==
    /\ 1 \in Creators /\ 2 \in Creators
    /\ StoredAt(1) = 2
    /\ StoredAt(2) = 1
    /\ req[1].pc = "handled" /\ req[2].pc = "handled"
====
